---- MODULE Spec2Model ----
\* Model of testcontainers_ext (src/src/lib.rs): the label triple, the
\* stale-container reaper with_prune_existed_label and the container engine
\* it drives through list / stop / prune.
EXTENDS Integers, Sequences, FiniteSets, TLC

VARIABLES containers, nextId, engineUp, pc, args, req, remove_containers,
          pending, calls, result, ncalls, repeat, quiet, atCall, log_consumers

vars == <<containers, nextId, engineUp, pc, args, req, remove_containers,
          pending, calls, result, ncalls, repeat, quiet, atCall, log_consumers>>

\* ---------------------------------------------------------------- bounds
MaxContainers == 2
MaxCalls == 2
MaxLogConsumers == 2

\* ---------------------------------------------------------------- strings
\* A string is a sequence of tokens.  Caller-supplied text is built from
\* one-character tokens ("a", "r", "q", "="); the literals of the source are
\* tokens of their own (none of them contains "=").
Scopes == {<<"a">>, <<"a", "=", "a">>}
Roles == {<<"r">>, <<"q">>}

TrueStr == <<"true">>

project_key(scope) == scope \o <<".testcontainers.scope">>
container_key(scope) == scope \o <<".testcontainers.container">>
prune_key(scope) == scope \o <<".testcontainers.prune">>

\* format!("{}={}", key, value)
FormatKV(key, value) == key \o <<"=">> \o value

\* ---------------------------------------------------------------- label maps
NoLabels == <<>>

\* (the map is replaced by the inserted pair instead of extended)
InsertOnly(m, k, v) == [x \in {k} |-> v]

\* HashMap insert: the key is added, or its value overwritten.
Insert(m, k, v) == [x \in (DOMAIN m) \cup {k} |-> IF x = k THEN v ELSE m[x]]

RECURSIVE with_labels(_, _)
with_labels(m, pairs) ==
    IF pairs = <<>> THEN m
    ELSE with_labels(Insert(m, Head(pairs)[1], Head(pairs)[2]), Tail(pairs))

\* (the values of the scope and container keys exchanged)
TripleMisplaced(scope, container_label) ==
    << <<prune_key(scope), TrueStr>>,
       <<project_key(scope), container_label>>,
       <<container_key(scope), scope>> >>

\* with_labels([(prune_key, "true"), (project_key, scope), (container_key, label)])
TripleAsWritten(scope, container_label) ==
    << <<prune_key(scope), TrueStr>>,
       <<project_key(scope), scope>>,
       <<container_key(scope), container_label>> >>

Labeled(m, scope, container_label) ==
    with_labels(m, TripleAsWritten(scope, container_label))

\* (the prune sentinel left out of the filter)
FiltersNoSentinel(scope, container_label) ==
    { FormatKV(project_key(scope), scope),
      FormatKV(container_key(scope), container_label) }

\* filters.insert("label", vec![...])
Filters(scope, container_label) ==
    { FormatKV(prune_key(scope), TrueStr),
      FormatKV(project_key(scope), scope),
      FormatKV(container_key(scope), container_label) }

\* ---------------------------------------------------------------- engine
\* The engine reads a label filter "k=v" by cutting it at its first "=".
RECURSIVE FirstEq(_, _)
FirstEq(s, i) ==
    IF i > Len(s) THEN 0
    ELSE IF s[i] = "=" THEN i
    ELSE FirstEq(s, i + 1)

CutKey(f) == LET i == FirstEq(f, 1) IN IF i = 0 THEN f ELSE SubSeq(f, 1, i - 1)
CutHasValue(f) == FirstEq(f, 1) # 0
CutValue(f) == SubSeq(f, FirstEq(f, 1) + 1, Len(f))

MatchLabels(filters, labels) ==
    \A f \in filters :
        /\ CutKey(f) \in DOMAIN labels
        /\ CutHasValue(f) => labels[CutKey(f)] = CutValue(f)

Present == DOMAIN containers

IsRunning(c) == containers[c].state \in {"running", "paused"}

Matching(filters) == {c \in Present : MatchLabels(filters, containers[c].labels)}

\* list_containers(all: false, filters): the running containers that match
EngineList(filters) == {c \in Matching(filters) : IsRunning(c)}

\* (a removal that also takes running containers)
EnginePrunableAny(filters) == Matching(filters)

\* prune_containers(filters): the stopped containers that match
EnginePrunable(filters) == {c \in Matching(filters) : ~IsRunning(c)}

\* ---------------------------------------------------------------- callers
Procs == {"A", "B"}

NoArgs == [scope |-> <<>>, container_label |-> <<>>, prune |-> FALSE, force |-> FALSE]
NoResult == [tag |-> "None", labels |-> NoLabels, quiet |-> FALSE]

\* Labels a request may already carry when it is handed in.
StaleLabels == (<<"q">> :> <<"q">>) @@ (project_key(<<"a">>) :> <<"q">>)
ReqChoices == {NoLabels, StaleLabels}

\* Labels of the containers the engine already holds.
WithoutKey(m, k) == [x \in (DOMAIN m) \ {k} |-> m[x]]
Container(labels, state) == [labels |-> labels, state |-> state]
ContainerChoices ==
    LET ar == Labeled(NoLabels, <<"a">>, <<"r">>)
        aq == Labeled(NoLabels, <<"a">>, <<"q">>)
        np == WithoutKey(ar, prune_key(<<"a">>))
        er == Labeled(NoLabels, <<"a", "=", "a">>, <<"r">>)
    IN << Container(ar, "running"), Container(ar, "exited"), Container(ar, "paused"),
          Container(aq, "running"), Container(aq, "exited"),
          Container(np, "running"), Container(np, "exited"),
          Container(er, "running"), Container(er, "exited") >>

\* The engine's containers at the start: any multiset of ContainerChoices
\* (identifiers are handed out in order, so the choices are taken in order).
ContainersFrom(choices) ==
    UNION { { [i \in 1..n |-> choices[f[i]]] :
              f \in {g \in [1..n -> 1..Len(choices)] :
                        \A i, j \in 1..n : i < j => g[i] <= g[j]} } :
            n \in 0..MaxContainers }

InitialContainers == ContainersFrom(ContainerChoices)

Entry(op, ok, id, set, cause) ==
    [op |-> op, ok |-> ok, id |-> id, set |-> set, cause |-> cause]

FiltersOf(p) == Filters(args[p].scope, args[p].container_label)

\* The callers other than p lose "nothing changed since my last call" when
\* the engine's containers change; p regains it when its call completes.
Quiet(p, newContainers, completes) ==
    [q \in Procs |->
        IF q = p THEN (IF completes THEN TRUE ELSE quiet[q])
        ELSE IF newContainers # containers THEN FALSE ELSE quiet[q]]

OkResult(p) ==
    [tag |-> "Ok",
     labels |-> Labeled(req[p], args[p].scope, args[p].container_label),
     quiet |-> quiet[p]]

ErrResult(p) == [tag |-> "Err", labels |-> NoLabels, quiet |-> quiet[p]]

\* Nobody has called yet; each caller holds the request it has built.
InitCallers ==
    /\ nextId = Len(containers) + 1
    /\ engineUp \in BOOLEAN
    /\ pc = [p \in Procs |-> "idle"]
    /\ args = [p \in Procs |-> NoArgs]
    /\ remove_containers = [p \in Procs |-> {}]
    /\ pending = [p \in Procs |-> {}]
    /\ calls = [p \in Procs |-> <<>>]
    /\ result = [p \in Procs |-> NoResult]
    /\ ncalls = [p \in Procs |-> 0]
    /\ repeat = [p \in Procs |-> FALSE]
    /\ quiet = [p \in Procs |-> FALSE]
    /\ atCall = [p \in Procs |-> <<>>]
    /\ log_consumers = [p \in Procs |-> <<>>]

Init ==
    /\ containers \in InitialContainers
    /\ \E self \in ReqChoices : req = [p \in Procs |-> self]
    /\ InitCallers

\* ---------------------------------------------------------------- phases
\* The call moves through the phases handle, list, stop, prune; "label" (the
\* with_labels and Ok(result) at the end) and "err" (a `?` that returns) end it
\* within the step that reaches them.

\* (the engine is contacted whatever prune is)
FirstPhaseAlways(prune) == "handle"

\* if prune { ... }
FirstPhase(prune) == IF prune THEN "handle" ELSE "label"

\* (running containers are stopped whatever force is)
AfterHandleForced(ok, force) == IF ~ok THEN "err" ELSE "list"

\* docker_client_instance().await?  and  if force { ... }
AfterHandle(ok, force) ==
    IF ~ok THEN "err" ELSE IF force THEN "list" ELSE "prune"

\* The running ones of a list result: filter(state == "running").
\* (the filter on the state is left out: every listed container is stopped)
RunningOfAll(listed) == listed

RunningOf(listed) == {c \in listed : containers[c].state = "running"}

\* (a failed list call is made again)
AfterListRetry(ok, remove) ==
    IF ~ok THEN "list" ELSE IF remove = {} THEN "prune" ELSE "stop"

\* list_containers(...).await.map_err(...)?; a fan-out of no stops is complete.
AfterList(ok, remove) ==
    IF ~ok THEN "err" ELSE IF remove = {} THEN "prune" ELSE "stop"

\* (join_all with the results discarded: a failed stop does not end the call)
join_all_ignored(ok, rest) == IF rest = {} THEN "prune" ELSE "stop"

\* (a select: the first stop to succeed completes the fan-out)
join_first(ok, rest) == IF ~ok THEN "err" ELSE "prune"

\* try_join_all(...).await.map_err(...)?: the first error ends the join, and
\* the join is complete when no stop is outstanding.
try_join_all(ok, rest) ==
    IF ~ok THEN "err" ELSE IF rest = {} THEN "prune" ELSE "stop"

\* (the prune result is discarded without `?`)
AfterPruneSwallowed(ok) == "label"

\* prune_containers(...).await.map_err(...)?
AfterPrune(ok) == IF ok THEN "label" ELSE "err"

Ends(phase) == phase \in {"label", "err"}

ResultAt(p, phase) ==
    IF phase = "label" THEN OkResult(p)
    ELSE IF phase = "err" THEN ErrResult(p)
    ELSE result[p]

\* p's call made the engine call `entry`, which left the engine holding `new`,
\* and goes on to `phase`.
Advance(p, entry, phase, new) ==
    /\ calls' = [calls EXCEPT ![p] = Append(@, entry)]
    /\ containers' = new
    /\ pc' = [pc EXCEPT ![p] = IF Ends(phase) THEN "done" ELSE phase]
    /\ result' = [result EXCEPT ![p] = ResultAt(p, phase)]
    /\ quiet' = Quiet(p, new, Ends(phase))

Cause(ok, missing) ==
    IF ok THEN "none" ELSE IF missing THEN "notfound" ELSE "unreachable"

\* with_prune_existed_label(self, scope, container_label, prune, force):
\* up to the first await.  With prune = false the whole call is this step.
Call(p, scope, container_label, prune, force) ==
    /\ pc[p] \in {"idle", "done", "started"}
    /\ ncalls[p] < MaxCalls
    /\ ncalls' = [ncalls EXCEPT ![p] = @ + 1]
    /\ args' = [args EXCEPT ![p] = [scope |-> scope, container_label |-> container_label,
                                    prune |-> prune, force |-> force]]
    /\ repeat' = [repeat EXCEPT ![p] =
                    /\ pc[p] # "idle"
                    /\ result[p].tag = "Ok"
                    /\ args[p].scope = scope
                    /\ args[p].container_label = container_label
                    /\ prune => (args[p].prune /\ (force => args[p].force))]
    /\ atCall' = [atCall EXCEPT ![p] = containers]
    /\ remove_containers' = [remove_containers EXCEPT ![p] = {}]
    /\ pending' = [pending EXCEPT ![p] = {}]
    /\ calls' = [calls EXCEPT ![p] = <<>>]
    /\ LET phase == FirstPhase(prune)
       IN /\ pc' = [pc EXCEPT ![p] = IF Ends(phase) THEN "done" ELSE phase]
          /\ result' = [result EXCEPT ![p] =
                          IF Ends(phase)
                          THEN [tag |-> "Ok",
                                labels |-> Labeled(req[p], scope, container_label),
                                quiet |-> quiet[p]]
                          ELSE NoResult]
          /\ quiet' = Quiet(p, containers, Ends(phase))
    /\ UNCHANGED <<containers, nextId, engineUp, req, log_consumers>>

\* docker_client_instance().await?
AcquireHandle(p) ==
    /\ pc[p] = "handle"
    /\ \E ok \in BOOLEAN :
          /\ ok \/ ~engineUp
          /\ Advance(p, Entry("handle", ok, 0, {}, Cause(ok, FALSE)),
                     AfterHandle(ok, args[p].force), containers)
    /\ UNCHANGED <<nextId, engineUp, args, req, remove_containers, pending,
                   ncalls, repeat, atCall, log_consumers>>

\* client.list_containers(all: false, filters).await, then the filter on state
ListContainers(p) ==
    /\ pc[p] = "list"
    /\ LET ok == engineUp
           listed == IF ok THEN EngineList(FiltersOf(p)) ELSE {}
           remove == RunningOf(listed)
       IN /\ Advance(p, Entry("list", ok, 0,
                              {<<c, containers[c].state>> : c \in listed},
                              Cause(ok, FALSE)),
                     AfterList(ok, remove), containers)
          /\ remove_containers' = [remove_containers EXCEPT ![p] = remove]
          /\ pending' = [pending EXCEPT ![p] = remove]
    /\ UNCHANGED <<nextId, engineUp, args, req, ncalls, repeat, atCall, log_consumers>>

\* (the stop futures are built but never awaited: nothing is stopped)
StoppedNothing(ids) == containers

\* What the engine holds once the stops of ids have been awaited.
Stopped(ids) ==
    [c \in Present |-> IF c \in ids THEN [containers[c] EXCEPT !.state = "exited"]
                       ELSE containers[c]]

\* One stop_container(c, None) of the fan-out is answered.  When the answer is
\* an error the join returns and drops the outstanding stops; the engine may
\* already have received any of them (sent).
StopContainer(p, c) ==
    /\ pc[p] = "stop"
    /\ c \in pending[p]
    /\ LET ok == engineUp /\ c \in Present
           rest == pending[p] \ {c}
           phase == try_join_all(ok, rest)
       IN \E sent \in SUBSET rest :
             /\ ~Ends(phase) => sent = {}
             /\ Advance(p, Entry("stop", ok, c, sent, Cause(ok, engineUp)), phase,
                        IF engineUp THEN Stopped((IF ok THEN {c} ELSE {}) \cup sent)
                        ELSE containers)
             /\ pending' = [pending EXCEPT ![p] = IF Ends(phase) THEN {} ELSE rest]
    /\ UNCHANGED <<nextId, engineUp, args, req, remove_containers, ncalls,
                   repeat, atCall, log_consumers>>

\* client.prune_containers(filters).await?, then with_labels and Ok(result)
PruneContainers(p) ==
    /\ pc[p] = "prune"
    /\ LET ok == engineUp
           deleted == IF ok THEN EnginePrunable(FiltersOf(p)) ELSE {}
       IN Advance(p, Entry("prune", ok, 0, deleted, Cause(ok, FALSE)),
                  AfterPrune(ok), [c \in Present \ deleted |-> containers[c]])
    /\ UNCHANGED <<nextId, engineUp, args, req, remove_containers, pending,
                   ncalls, repeat, atCall, log_consumers>>

\* The caller starts a container from the request it got back (.start()).
StartContainer(p) ==
    /\ pc[p] = "done"
    /\ result[p].tag = "Ok"
    /\ nextId <= MaxContainers
    /\ containers' = containers @@
                       (nextId :> [labels |-> result[p].labels, state |-> "running"])
    /\ nextId' = nextId + 1
    /\ pc' = [pc EXCEPT ![p] = "started"]
    /\ quiet' = [q \in Procs |-> FALSE]
    /\ UNCHANGED <<engineUp, args, req, remove_containers, pending, calls,
                   result, ncalls, repeat, atCall, log_consumers>>

\* The engine becomes unreachable, or reachable again.
EngineFlip ==
    /\ engineUp' = ~engineUp
    /\ UNCHANGED <<containers, nextId, pc, args, req, remove_containers,
                   pending, calls, result, ncalls, repeat, quiet, atCall, log_consumers>>

\* ---------------------------------------------------------------- log consumer
\* LoggingConsumer::new()
LoggingConsumerNew == [stdout |-> "Info", stderr |-> "Error", prefix |-> "None"]

with_stdout_level(consumer, level) == [consumer EXCEPT !.stdout = level]
with_stderr_level(consumer, level) == [consumer EXCEPT !.stderr = level]

\* (the two levels exchanged)
DefaultLogConsumerSwapped ==
    with_stderr_level(with_stdout_level(LoggingConsumerNew, "Error"), "Info")

\* LoggingConsumer::new().with_stdout_level(Info).with_stderr_level(Error)
DefaultLogConsumer ==
    with_stderr_level(with_stdout_level(LoggingConsumerNew, "Info"), "Error")

\* with_default_log_consumer(self): self.with_log_consumer(...), on the request
\* the caller holds (before a call, or the one a call returned).
with_default_log_consumer(p) ==
    /\ pc[p] = "idle" \/ (pc[p] = "done" /\ result[p].tag = "Ok")
    /\ Len(log_consumers[p]) < MaxLogConsumers
    /\ log_consumers' = [log_consumers EXCEPT ![p] = Append(@, DefaultLogConsumer)]
    /\ UNCHANGED <<containers, nextId, engineUp, pc, args, req, remove_containers,
                   pending, calls, result, ncalls, repeat, quiet, atCall>>

Step(p) ==
    \/ AcquireHandle(p)
    \/ ListContainers(p)
    \/ \E c \in pending[p] : StopContainer(p, c)
    \/ PruneContainers(p)
    \/ StartContainer(p)

\* One caller, every argument.
Next ==
    \/ \E scope \in Scopes, container_label \in Roles,
          prune \in BOOLEAN, force \in BOOLEAN :
          Call("A", scope, container_label, prune, force)
    \/ Step("A")
    \/ EngineFlip

Spec == Init /\ [][Next]_vars

\* Two callers reaping the same scope and role, one call each.
RaceContainers == ContainersFrom(SubSeq(ContainerChoices, 1, 2))

InitRace ==
    /\ containers \in RaceContainers
    /\ req = [p \in Procs |-> NoLabels]
    /\ InitCallers

NextRace ==
    \/ \E p \in Procs, force \in BOOLEAN :
          /\ pc[p] = "idle"
          /\ Call(p, <<"a">>, <<"r">>, TRUE, force)
    \/ \E p \in Procs : Step(p)
    \/ EngineFlip

SpecRace == InitRace /\ [][NextRace]_vars

\* A request that an earlier call for the same scope and role has returned.
LabeledReq == Labeled(StaleLabels, <<"a">>, <<"r">>)

\* One caller building a request: the log consumer and the reaper, on an
\* engine that holds containers of its scope and role.

InitLog ==
    /\ containers \in RaceContainers
    /\ \E self \in ReqChoices \cup {LabeledReq} : req = [p \in Procs |-> self]
    /\ InitCallers

NextLog ==
    \/ with_default_log_consumer("A")
    \/ \E prune \in BOOLEAN, force \in BOOLEAN :
          /\ pc["A"] = "idle"
          /\ Call("A", <<"a">>, <<"r">>, prune, force)
    \/ Step("A")
    \/ EngineFlip

SpecLog == InitLog /\ [][NextLog]_vars

\* Two callers that reap, with force, the scope they label their own
\* containers with, and start a container from the request they get back.
LiveContainers == ContainersFrom(SubSeq(ContainerChoices, 1, 1))

InitLive ==
    /\ containers \in LiveContainers
    /\ req = [p \in Procs |-> NoLabels]
    /\ InitCallers

NextLive ==
    \/ \E p \in Procs, scope \in Scopes :
          /\ pc[p] = "idle"
          /\ Call(p, scope, <<"r">>, TRUE, TRUE)
    \/ \E p \in Procs : Step(p)
    \/ EngineFlip

SpecLive == InitLive /\ [][NextLive]_vars

\* ---------------------------------------------------------------- claims
\* The Label Triple as the specification writes it.
CarriesTriple(labels, s, r) ==
    /\ (s \o <<".testcontainers.scope">>) \in DOMAIN labels
    /\ labels[s \o <<".testcontainers.scope">>] = s
    /\ (s \o <<".testcontainers.container">>) \in DOMAIN labels
    /\ labels[s \o <<".testcontainers.container">>] = r
    /\ (s \o <<".testcontainers.prune">>) \in DOMAIN labels
    /\ labels[s \o <<".testcontainers.prune">>] = <<"true">>

Returned(p) == pc[p] \in {"done", "started"}
ReturnedOk(p) == Returned(p) /\ result[p].tag = "Ok"

Indices(p, op) == {i \in 1..Len(calls[p]) : calls[p][i].op = op}
Issued(p, op) == Indices(p, op) # {}
StopSet(p) == {calls[p][i].id : i \in {j \in Indices(p, "stop") : calls[p][j].ok}}
Removed(p) == UNION {calls[p][i].set : i \in Indices(p, "prune")}

\* C1: whenever the call returns successfully, whatever prune and force are,
\* the returned request maps the three keys of the Label Triple to the scope,
\* the role and "true".
C1_LabelCompleteness ==
    \A p \in Procs :
        ReturnedOk(p) =>
            CarriesTriple(result[p].labels, args[p].scope, args[p].container_label)

\* C1 witness: a forced reap that stopped a container has returned a request
\* whose stale value under a triple key was replaced.
C1_Witness ==
    \E p \in Procs :
        /\ ReturnedOk(p)
        /\ args[p].prune /\ args[p].force
        /\ StopSet(p) # {}
        /\ req[p] = StaleLabels
        /\ args[p].scope = <<"a">>
        /\ CarriesTriple(result[p].labels, <<"a">>, args[p].container_label)

\* C2: with prune = false the call makes no engine call (no handle, list,
\* stop or prune), returns a labeled request even when the engine is
\* unreachable, and the step that runs it leaves the engine's containers as
\* they were.
C2_NoOpWhenDisabled ==
    /\ [](\A p \in Procs :
            (Returned(p) /\ ~args[p].prune) =>
                /\ calls[p] = <<>>
                /\ result[p].tag = "Ok"
                /\ CarriesTriple(result[p].labels, args[p].scope,
                                 args[p].container_label))
    /\ [][\A p \in Procs :
            (ncalls'[p] # ncalls[p] /\ ~args'[p].prune) =>
                /\ containers' = containers
                /\ pc'[p] = "done"]_vars

\* C2 witness: a call with prune = false has returned Ok while the engine is
\* unreachable and holds containers.
C2_Witness ==
    \E p \in Procs :
        /\ pc[p] = "done" /\ ~args[p].prune /\ args[p].force
        /\ result[p].tag = "Ok"
        /\ ~engineUp
        /\ Present # {}

\* C3: no step of a call with prune = true and force = false stops or removes
\* a running container that carries the Label Triple of the call.
C3_PruneKeepsRunning ==
    [][\A p \in Procs :
         (calls'[p] # calls[p] /\ args'[p].prune /\ ~args'[p].force) =>
            \A c \in Present :
               (/\ CarriesTriple(containers[c].labels, args'[p].scope,
                                 args'[p].container_label)
                /\ containers[c].state = "running") =>
                   /\ c \in DOMAIN containers'
                   /\ containers'[c].state = "running"]_vars

\* C3 witness: an unforced reap has pruned and returned while a container that
\* was running with the triple before the call is still running.
C3_Witness ==
    \E p \in Procs :
        /\ pc[p] = "done" /\ result[p].tag = "Ok"
        /\ args[p].prune /\ ~args[p].force
        /\ Issued(p, "prune")
        /\ \E c \in Present \cap DOMAIN atCall[p] :
              /\ atCall[p][c].state = "running"
              /\ CarriesTriple(containers[c].labels, args[p].scope,
                               args[p].container_label)
              /\ containers[c].state = "running"

\* C4: when a call with prune = true and force = true has returned
\* successfully, every container that was running with the call's Label
\* Triple when the call was made is absent, and the call stopped it before
\* its prune removed it.
C4_ForceStopsThenRemoves ==
    \A p \in Procs :
        (pc[p] = "done" /\ result[p].tag = "Ok" /\ args[p].prune /\ args[p].force) =>
            \A c \in DOMAIN atCall[p] :
                (/\ CarriesTriple(atCall[p][c].labels, args[p].scope,
                                  args[p].container_label)
                 /\ atCall[p][c].state = "running") =>
                    /\ c \notin Present
                    /\ \E i \in Indices(p, "stop"), j \in Indices(p, "prune") :
                          /\ i < j
                          /\ calls[p][i].id = c /\ calls[p][i].ok
                          /\ c \in calls[p][j].set

\* C5: a call made right after the caller's previous successful call for the
\* same scope and role (repeat: that call did the cleanup this one asks for),
\* with no container started or changed by anyone else in between, finds
\* nothing to stop and nothing to prune, fails only if the engine is
\* unreachable, and a request it returns carries the triple.
C5_Idempotence ==
    \A p \in Procs :
        (Returned(p) /\ repeat[p] /\ result[p].quiet) =>
            /\ remove_containers[p] = {}
            /\ ~Issued(p, "stop")
            /\ Removed(p) = {}
            /\ \A i \in 1..Len(calls[p]) :
                  ~calls[p][i].ok => calls[p][i].cause = "unreachable"
            /\ (\A i \in 1..Len(calls[p]) : calls[p][i].ok) =>
                  /\ result[p].tag = "Ok"
                  /\ CarriesTriple(result[p].labels, args[p].scope,
                                   args[p].container_label)

\* C5 witness: the second of two identical forced reaps has listed and pruned
\* and returned Ok, after the first one emptied an engine that held containers.
C5_Witness ==
    \E p \in Procs :
        /\ pc[p] = "done" /\ repeat[p] /\ result[p].quiet
        /\ args[p].prune /\ args[p].force
        /\ result[p].tag = "Ok"
        /\ Issued(p, "list") /\ Issued(p, "prune")
        /\ nextId > 1 /\ Present = {}

Failed(p) == {i \in 1..Len(calls[p]) : ~calls[p][i].ok}

\* C6: when a stop call of the fan-out has failed, the call has returned an
\* error, and it made no engine call after the failed stop: in particular no
\* prune.
C6_StopFailureEndsCall ==
    \A p \in Procs :
        \A i \in Indices(p, "stop") :
            ~calls[p][i].ok =>
                /\ pc[p] = "done"
                /\ result[p].tag = "Err"
                /\ ~Issued(p, "prune")
                /\ i = Len(calls[p])

\* C6 witness: of several containers being stopped, one stop succeeded and a
\* later one failed.
C6_Witness ==
    \E p \in Procs :
        \E i, j \in Indices(p, "stop") :
            /\ i < j
            /\ calls[p][i].ok /\ ~calls[p][j].ok
            /\ Cardinality(remove_containers[p]) > 1

\* C7: a failed engine step (handle, list, stop or prune) is the last step of
\* the call and makes it return an error without a request; an error is
\* returned only then; and a request is returned only after every engine step
\* the arguments ask for has succeeded, and then with the whole triple.
C7_ErrorOrLabeledRequest ==
    \A p \in Procs :
        /\ \A i \in Failed(p) :
              /\ pc[p] = "done"
              /\ result[p].tag = "Err"
              /\ i = Len(calls[p])
        /\ result[p].tag = "Err" =>
              /\ Failed(p) # {}
              /\ result[p].labels = NoLabels
        /\ result[p].tag = "Ok" =>
              /\ Returned(p)
              /\ Failed(p) = {}
              /\ args[p].prune => (Issued(p, "handle") /\ Issued(p, "prune"))
              /\ (args[p].prune /\ args[p].force) =>
                    /\ Issued(p, "list")
                    /\ remove_containers[p] \subseteq StopSet(p)
              /\ CarriesTriple(result[p].labels, args[p].scope,
                               args[p].container_label)
        /\ result[p].tag = "None" => ~Returned(p)

\* C7 witness: the prune call failed after a stop had succeeded, and the call
\* returned an error and no request.
C7_Witness ==
    \E p \in Procs :
        /\ pc[p] = "done" /\ result[p].tag = "Err"
        /\ result[p].labels = NoLabels
        /\ StopSet(p) # {}
        /\ \E i \in Indices(p, "prune") : ~calls[p][i].ok

\* C8: in the call's sequence of engine calls the handle comes first, every
\* stop comes after a successful list and is for a container of its result,
\* and the prune comes last, after every stop of the fan-out has succeeded.
C8_PhasesSequential ==
    \A p \in Procs :
        /\ \A i \in Indices(p, "handle") : i = 1
        /\ \A j \in Indices(p, "stop") :
              \E i \in Indices(p, "list") :
                 /\ i < j
                 /\ calls[p][i].ok
                 /\ calls[p][j].id \in {e[1] : e \in calls[p][i].set}
        /\ \A k \in Indices(p, "prune") :
              /\ k = Len(calls[p])
              /\ \A i \in 1..(k - 1) : calls[p][i].ok
              /\ args[p].force =>
                    /\ \E i \in Indices(p, "list") : i < k
                    /\ \A c \in remove_containers[p] :
                          \E j \in Indices(p, "stop") :
                             j < k /\ calls[p][j].id = c /\ calls[p][j].ok

\* C8 witness: two stops were answered in the reverse order of their
\* containers' identifiers, and the prune followed.
C8_Witness ==
    \E p \in Procs :
        /\ Issued(p, "prune")
        /\ \E i, j \in Indices(p, "stop") :
              i < j /\ calls[p][i].id > calls[p][j].id

NotFound(p) == {i \in 1..Len(calls[p]) : calls[p][i].cause = "notfound"}

\* C9: the race of two callers reaping the same scope and role.  The engine
\* answers "not found" only to a stop, and only in the race: the caller had
\* listed the container as running, and the other caller, which had listed it
\* too, stopped it, pruned it and returned Ok.  (The witness is the
\* interleaving itself, which nothing prevents.)
C9_NotFoundIsTheRace ==
    \A p \in Procs :
        \A i \in NotFound(p) :
            /\ calls[p][i].op = "stop"
            /\ calls[p][i].id \in remove_containers[p]
            /\ calls[p][i].id \notin Present
            /\ result[p].tag = "Err"
            /\ \E q \in Procs \ {p} :
                  /\ calls[p][i].id \in remove_containers[q]
                  /\ calls[p][i].id \in StopSet(q)
                  /\ calls[p][i].id \in Removed(q)
                  /\ result[q].tag = "Ok"

\* C9 witness: both callers listed the same running container; one stopped and
\* pruned it and returned Ok, the other got "not found" on its own stop of it
\* and returned an error.
C9_Witness ==
    \E p \in Procs, q \in Procs :
        /\ p # q
        /\ args[p].force /\ args[q].force
        /\ \E c \in remove_containers[p] \cap remove_containers[q] :
              /\ c \in StopSet(q) /\ c \in Removed(q)
              /\ \E i \in NotFound(p) : calls[p][i].id = c
        /\ result[q].tag = "Ok"
        /\ result[p].tag = "Err"

\* C9 as stated: whenever both callers have listed the same running container,
\* have both sent a stop for it and have both returned, one of the two has
\* returned an error.
C9_OneOfTheTwoFails ==
    \A p \in Procs, q \in Procs :
        (/\ p # q
         /\ Returned(p) /\ Returned(q)
         /\ \E c \in remove_containers[p] \cap remove_containers[q] :
               /\ \E i \in Indices(p, "stop") : calls[p][i].id = c
               /\ \E j \in Indices(q, "stop") : calls[q][j].id = c) =>
            (result[p].tag = "Err" \/ result[q].tag = "Err")

\* C10: a step changes or removes a container only as the stop or the prune
\* of a call whose Label Triple (scope, role and sentinel, all three with
\* these values) the container carries; and the containers a call sets out
\* to stop all carry its triple.
C10_OnlyFullTriple ==
    [][/\ \A c \in Present :
             (c \notin DOMAIN containers' \/ containers'[c] # containers[c]) =>
                \E p \in Procs :
                   /\ calls'[p] # calls[p]
                   /\ pc[p] \in {"stop", "prune"}
                   /\ CarriesTriple(containers[c].labels, args[p].scope,
                                    args[p].container_label)
       /\ \A p \in Procs :
             \A c \in remove_containers'[p] \ remove_containers[p] :
                /\ c \in Present
                /\ CarriesTriple(containers[c].labels, args[p].scope,
                                 args[p].container_label)]_vars

\* C10 witness: a forced reap stopped and removed a container with the full
\* triple and returned, and a container that has the scope key but not the
\* whole triple is as it was before the call.
C10_Witness ==
    \E p \in Procs :
        /\ pc[p] = "done" /\ result[p].tag = "Ok"
        /\ StopSet(p) # {} /\ Removed(p) # {}
        /\ \E c \in Present \cap DOMAIN atCall[p] :
              /\ containers[c] = atCall[p][c]
              /\ (args[p].scope \o <<".testcontainers.scope">>)
                    \in DOMAIN containers[c].labels
              /\ ~CarriesTriple(containers[c].labels, args[p].scope,
                                args[p].container_label)

\* C11: with_default_log_consumer attaches one observer with stdout at Info
\* and stderr at Error; the step makes no engine call, changes nothing of the
\* engine or of the request's labels, and ends with the request still held
\* (no error), whether the engine is reachable or not.
C11_DefaultLogConsumer ==
    /\ [](\A p \in Procs :
            \A i \in 1..Len(log_consumers[p]) :
                /\ log_consumers[p][i].stdout = "Info"
                /\ log_consumers[p][i].stderr = "Error")
    /\ [][\A p \in Procs :
            log_consumers'[p] # log_consumers[p] =>
                /\ Len(log_consumers'[p]) = Len(log_consumers[p]) + 1
                /\ SubSeq(log_consumers'[p], 1, Len(log_consumers[p])) = log_consumers[p]
                /\ calls' = calls
                /\ containers' = containers
                /\ req' = req
                /\ result' = result
                /\ pc' = pc]_vars

\* C11 witness: an observer was attached to a labeled request a reap returned,
\* while the engine is unreachable.
C11_Witness ==
    \E p \in Procs :
        /\ pc[p] = "done" /\ result[p].tag = "Ok"
        /\ args[p].prune
        /\ ~engineUp
        /\ Len(log_consumers[p]) > 0
        /\ log_consumers[p][1] = [stdout |-> "Info", stderr |-> "Error", prefix |-> "None"]

\* C12: when a stop of the fan-out has failed and the error is returned, every
\* container whose stop had already succeeded is still held by the engine, in
\* state exited: the stops are not undone and no prune removed them.
C12_PartialStopsStay ==
    \A p \in Procs :
        (\E i \in Indices(p, "stop") : ~calls[p][i].ok) =>
            \A c \in StopSet(p) :
                /\ c \in Present
                /\ containers[c].state = "exited"
                /\ c \notin Removed(p)

\* C12 witness: the error of a failed stop was returned after another stop had
\* succeeded on a container that was running when the call was made.
C12_Witness ==
    \E p \in Procs :
        /\ pc[p] = "done" /\ result[p].tag = "Err"
        /\ \E i \in Indices(p, "stop") : ~calls[p][i].ok
        /\ \E c \in StopSet(p) :
              /\ atCall[p][c].state = "running"
              /\ c \in Present
              /\ containers[c].state = "exited"

\* The containers of the list result of p with their states, those of them
\* listed as running, and every container the engine got a stop call for.
Listed(p) == UNION {calls[p][i].set : i \in Indices(p, "list")}
ListedRunning(p) == {e[1] : e \in {l \in Listed(p) : l[2] = "running"}}
StopCalls(p) ==
    UNION {{calls[p][i].id} \cup calls[p][i].set : i \in Indices(p, "stop")}

\* C13: in a forced reap the containers that get a stop call are among the
\* containers listed as running, none gets two stop calls, a listed container
\* that was not running gets none, and once the fan-out has ended without a
\* failed stop the containers stopped are exactly those listed as running.
C13_StopSetIsListedRunning ==
    \A p \in Procs :
        (args[p].prune /\ args[p].force) =>
            /\ StopCalls(p) \subseteq ListedRunning(p)
            /\ \A i, j \in Indices(p, "stop") :
                  i < j => /\ calls[p][i].id # calls[p][j].id
                           /\ calls[p][i].id \notin calls[p][j].set
            /\ \A l \in Listed(p) : l[2] # "running" => l[1] \notin StopCalls(p)
            /\ ( /\ \E i \in Indices(p, "list") : calls[p][i].ok
                 /\ pc[p] # "stop"
                 /\ \A i \in Indices(p, "stop") : calls[p][i].ok )
               => StopSet(p) = ListedRunning(p)

\* C13 witness: a forced reap listed a running and a paused container, stopped
\* the running one only, and returned.
C13_Witness ==
    \E p \in Procs :
        /\ ReturnedOk(p) /\ args[p].prune /\ args[p].force
        /\ \E l, m \in Listed(p) :
              /\ l[2] = "running" /\ m[2] = "paused"
              /\ StopSet(p) = {l[1]}
              /\ m[1] \notin StopCalls(p)

\* C14: an invocation makes at most one prune call.  With prune = true and
\* force = false it makes no list call and no stop call, and once the handle
\* was acquired it makes exactly one prune call; with prune = true and
\* force = true it makes exactly one prune call whenever the list call and
\* every stop succeeded.
C14_OnePruneCall ==
    \A p \in Procs :
        /\ Cardinality(Indices(p, "prune")) <= 1
        /\ (args[p].prune /\ ~args[p].force) =>
              /\ ~Issued(p, "list")
              /\ ~Issued(p, "stop")
              /\ (Returned(p) /\ \E i \in Indices(p, "handle") : calls[p][i].ok)
                    => Cardinality(Indices(p, "prune")) = 1
        /\ ( /\ args[p].prune /\ args[p].force /\ Returned(p)
             /\ \E i \in Indices(p, "list") : calls[p][i].ok
             /\ \A i \in Indices(p, "stop") : calls[p][i].ok )
           => Cardinality(Indices(p, "prune")) = 1

\* C14 witness: an unforced reap returned after one prune call that removed a
\* container, and made no list call.
C14_Witness ==
    \E p \in Procs :
        /\ Returned(p) /\ args[p].prune /\ ~args[p].force
        /\ Cardinality(Indices(p, "prune")) = 1
        /\ Removed(p) # {}
        /\ ~Issued(p, "list")

\* The containers that carried the Label Triple of p's call when it was made.
MatchedAtCall(p) ==
    {c \in DOMAIN atCall[p] :
        CarriesTriple(atCall[p][c].labels, args[p].scope, args[p].container_label)}

\* C15: a call with prune = true that reached the engine at every step returns
\* Ok; when no container carried the triple it stopped nothing, removed
\* nothing and left the engine's containers as they were; when every container
\* carrying the triple was already stopped it made no stop call and its prune
\* removed all of them, whatever force is.
C15_EmptyAndStoppedMatches ==
    \A p \in Procs :
        ( /\ pc[p] = "done" /\ args[p].prune
          /\ \A i \in 1..Len(calls[p]) : calls[p][i].cause # "unreachable" ) =>
            /\ MatchedAtCall(p) = {} =>
                  /\ result[p].tag = "Ok"
                  /\ StopCalls(p) = {}
                  /\ Removed(p) = {}
                  /\ containers = atCall[p]
            /\ ( /\ MatchedAtCall(p) # {}
                 /\ \A c \in MatchedAtCall(p) : atCall[p][c].state = "exited" ) =>
                  /\ result[p].tag = "Ok"
                  /\ StopCalls(p) = {}
                  /\ Removed(p) = MatchedAtCall(p)
                  /\ MatchedAtCall(p) \cap Present = {}

\* C16: within one invocation the handle acquisition, the list call and the
\* prune call are each made at most once; when one of them failed it is the
\* only failed call, the invocation has returned an error, and no later step
\* adds an engine call to that invocation (its log changes only when a new
\* invocation starts it afresh).
C16_NoRetryNoSwallow ==
    /\ [](\A p \in Procs : \A op \in {"handle", "list", "prune"} :
            /\ Cardinality(Indices(p, op)) <= 1
            /\ \A i \in Indices(p, op) :
                  ~calls[p][i].ok =>
                      /\ Returned(p)
                      /\ result[p].tag = "Err"
                      /\ Failed(p) = {i}
                      /\ i = Len(calls[p]))
    /\ [][\A p \in Procs :
            ( /\ calls[p] # <<>>
              /\ ~calls[p][Len(calls[p])].ok
              /\ calls[p][Len(calls[p])].op \in {"handle", "list", "prune"} )
            => calls'[p] \in {calls[p], <<>>}]_vars

\* C16 witness: the list call failed after the handle was acquired; it is the
\* last engine call of the invocation, which returned an error.
C16_Witness ==
    \E p \in Procs :
        /\ pc[p] = "done" /\ result[p].tag = "Err"
        /\ Len(calls[p]) = 2
        /\ calls[p][1].op = "handle" /\ calls[p][1].ok
        /\ calls[p][2].op = "list" /\ ~calls[p][2].ok

\* C17: the labels of the returned request are the labels of the request handed
\* in plus the three keys of the triple: every label under another key is
\* unchanged, no other key is added or dropped, and for a request that already
\* carried the same triple the returned label map equals the one handed in.
C17_OnlyTripleAdded ==
    \A p \in Procs :
        ReturnedOk(p) =>
            LET s == args[p].scope
                keys == { s \o <<".testcontainers.scope">>,
                          s \o <<".testcontainers.container">>,
                          s \o <<".testcontainers.prune">> }
                out == result[p].labels
            IN /\ DOMAIN out = (DOMAIN req[p]) \cup keys
               /\ \A k \in (DOMAIN req[p]) \ keys : out[k] = req[p][k]
               /\ CarriesTriple(req[p], s, args[p].container_label) => out = req[p]

\* C17 witness: a request that already carried the triple, and a label under
\* another key, went through a reap and came back with the same label map.
C17_Witness ==
    \E p \in Procs :
        /\ ReturnedOk(p) /\ args[p].prune
        /\ CarriesTriple(req[p], args[p].scope, args[p].container_label)
        /\ <<"q">> \in DOMAIN req[p]
        /\ result[p].labels[<<"q">>] = <<"q">>
        /\ result[p].labels = req[p]

\* The containers p has started from the request its call returned.
StartedBy(p) ==
    IF pc[p] # "started" THEN {}
    ELSE {c \in Present \ DOMAIN atCall[p] : containers[c].labels = result[p].labels}

SameTriple(p, q) ==
    /\ args[p].scope = args[q].scope
    /\ args[p].container_label = args[q].container_label

\* C18: a container that caller p started from the request its call returned
\* is reaped by another caller q's forced call for the same scope and role:
\* when q's list call is answered while the container runs, the container is
\* in q's stop set, and when q's call has returned Ok the container was
\* stopped by q, removed by q's prune and is gone.
C18_LiveContainersReaped ==
    /\ [][\A p, q \in Procs :
            ( /\ p # q /\ SameTriple(p, q)
              /\ pc[q] = "list" /\ pc'[q] # "list"
              /\ calls'[q][Len(calls'[q])].ok )
            => \A c \in StartedBy(p) :
                  containers[c].state = "running" => c \in remove_containers'[q]]_vars
    /\ [](\A p, q \in Procs :
            ( /\ p # q /\ SameTriple(p, q) /\ pc[p] = "started"
              /\ ReturnedOk(q) /\ args[q].prune /\ args[q].force )
            => \A c \in remove_containers[q] \ DOMAIN atCall[p] :
                  /\ c \in StopSet(q)
                  /\ c \in Removed(q)
                  /\ c \notin Present)

\* The containers the engine holds that came after q's successful list call was
\* answered: they were not there when q called and are not in its list result.
StartedAfterList(q) ==
    IF \E i \in Indices(q, "list") : calls[q][i].ok
    THEN {c \in Present :
             c \notin DOMAIN atCall[q] /\ c \notin {l[1] : l \in Listed(q)}}
    ELSE {}

\* C19: a container started while a forced invocation is past its list call (in
\* its fan-out of stops or before its prune) is one of the containers that came
\* after the list, and its start leaves the invocation's stop set as it was;
\* such a container never gets a stop call from the invocation and is never
\* removed by its prune; every later engine call of the invocation, its prune
\* included, leaves the container present and running.
C19_StopSetFixedByList ==
    /\ [][\A q \in Procs :
            (args[q].force /\ pc[q] \in {"stop", "prune"} /\ nextId' # nextId) =>
                /\ nextId \in StartedAfterList(q)'
                /\ containers'[nextId].state = "running"
                /\ remove_containers'[q] = remove_containers[q]
                /\ nextId \notin remove_containers'[q]]_vars
    /\ [](\A q \in Procs : \A c \in StartedAfterList(q) :
            c \notin StopCalls(q) /\ c \notin Removed(q))
    /\ [][\A q \in Procs : \A c \in StartedAfterList(q) :
            (calls'[q] # calls[q] /\ containers[c].state = "running") =>
                /\ c \in DOMAIN containers'
                /\ containers'[c].state = "running"]_vars

\* C19 witness: a forced reap has listed and stopped a container and not yet
\* pruned, and a container that another caller started after the reap's list
\* call, with the same triple, is running.
C19_Witness ==
    \E p, q \in Procs :
        /\ p # q /\ pc[p] = "started"
        /\ pc[q] = "prune" /\ args[q].force
        /\ StopSet(q) # {}
        /\ \E c \in StartedAfterList(q) :
              /\ c \in StartedBy(p)
              /\ containers[c].state = "running"
              /\ CarriesTriple(containers[c].labels, args[q].scope,
                               args[q].container_label)

====
